---- MODULE Spec2Model ----
(***************************************************************************)
(* A model of shawnd/pr-reviewer's command-line harness (src/src/cli.ts)   *)
(* and of its AI SDK inference provider (src/unnamed/part_000).            *)
(*                                                                         *)
(* Text is modelled as a sequence of one-character strings, so that        *)
(* startsWith, trim, parseInt and join are computed and not assumed.       *)
(* JavaScript values are tagged records, so that values of different       *)
(* JavaScript types can be compared.                                       *)
(***************************************************************************)
EXTENDS Integers, Sequences, FiniteSets, TLC

VARIABLES
    \* ---- AISDKProvider.runInference
    infPc,        \* "idle" | "awaiting" (suspended in generateObject) | "done"
    schema,       \* the Zod schema of the request in flight
    object,       \* what generateObject resolved with
    infResult,    \* how runInference settled
    \* ---- resolveGitHubToken, called repeatedly in one process
    env,          \* process.env: a map from the names that are set to text
    envFile,      \* the .env file of the working directory
    credOutcome,  \* how the last call of resolveGitHubToken ended
    credHist,     \* bookkeeping of the calls made so far
    \* ---- main, parseArgs, listPRs, reviewPR
    argv,         \* process.argv.slice(2)
    argi,         \* parseArgs' loop index i (0-based, as in the source)
    args,         \* parseArgs' result under construction
    pc,           \* where main is
    stdoutWrite,  \* what process.stdout.write currently is
    stderrWrite,  \* what process.stderr.write currently is
    chunks,       \* reviewPR's capture buffer
    writes,       \* every write call made so far: stream, argument, captured or not
    emitted,      \* every call the original writers received: stream, argument
    files,        \* the file system: a map from the paths written to their content
    releaseCalls, \* how often reviewPR's restore function ran
    frame,        \* the locals of the listPRs or reviewPR call in flight
    failure,      \* the error main rejected with, "none" so far
    trace         \* which external-API-dependent steps have happened

infVars  == <<infPc, schema, object, infResult>>
credVars == <<env, envFile, credOutcome, credHist>>
argVars  == <<argv, argi, args>>
ioVars   == <<stdoutWrite, stderrWrite, chunks, writes, emitted>>
flowVars == <<files, releaseCalls, frame, failure, trace>>
mainVars == <<argVars, pc, ioVars, flowVars>>
vars     == <<infVars, credVars, mainVars>>

-----------------------------------------------------------------------------
(* JSON values and Zod schemas                                             *)

\* the reserved key of the wrapping defect
PARAMETER_NAME == "$PARAMETER_NAME"

Prim(k, v) == [kind |-> k, v |-> v, f |-> <<>>]
Obj(f)     == [kind |-> "object", v |-> "", f |-> f]
Undefined  == Prim("undefined", "")

Prims == {Prim("string", "x"), Prim("number", "1"), Prim("null", "null")}

PlainKeys == {"a", "b"}

\* objects with primitive fields and no reserved key
FlatObjects == UNION {{Obj(f) : f \in [ks -> Prims]} : ks \in SUBSET PlainKeys}

\* every value the backend may answer with: a primitive, a flat object, or an
\* object that also carries the reserved key over a primitive or a flat object
Responses ==
    Prims \cup FlatObjects \cup
    UNION {{Obj([k \in DOMAIN o.f \cup {PARAMETER_NAME} |->
                    IF k = PARAMETER_NAME THEN x ELSE o.f[k]])
              : x \in Prims \cup FlatObjects} : o \in FlatObjects}

IsObject(val) == val.kind = "object"
Keys(val)     == DOMAIN val.f
HasKey(val, k) == IsObject(val) /\ k \in Keys(val)

PrimSchema(t)        == [type |-> t, shape |-> <<>>, unknownKeys |-> "strip"]
ObjectSchema(sh, uk) == [type |-> "object", shape |-> sh, unknownKeys |-> uk]

PrimTypes == {"string", "number"}
SchemaKeys == {"a", PARAMETER_NAME}

\* z.string(), z.number(), and z.object(shape) in its three unknown-key modes
\* (strip is z.object's default, .strict() and .passthrough() the other two)
Schemas ==
    {PrimSchema(t) : t \in PrimTypes} \cup
    UNION {{ObjectSchema(sh, uk) : sh \in [ks -> PrimTypes],
                                   uk \in {"strip", "strict", "passthrough"}}
             : ks \in SUBSET SchemaKeys}

ParseOk(val)   == [ok |-> TRUE, value |-> val]
ParseFail(val) == [ok |-> FALSE, value |-> val]

\* schema.parse(val): the parsed value of a Zod schema, or a ZodError (ok = FALSE).
\* An object schema requires every key of its shape with the right type; keys
\* outside the shape are dropped (strip), kept (passthrough) or an error (strict).
ZodParse(S, val) ==
    IF S.type # "object"
    THEN IF val.kind = S.type THEN ParseOk(val) ELSE ParseFail(val)
    ELSE IF ~IsObject(val) THEN ParseFail(val)
    ELSE LET declared == DOMAIN S.shape
             unknown  == Keys(val) \ declared
         IN  IF \E k \in declared : k \notin Keys(val) \/ val.f[k].kind # S.shape[k]
             THEN ParseFail(val)
             ELSE IF S.unknownKeys = "strict" /\ unknown # {}
             THEN ParseFail(val)
             ELSE IF S.unknownKeys = "strip"
             THEN ParseOk(Obj([k \in Keys(val) \cap declared |-> val.f[k]]))
             ELSE ParseOk(val)

Returned(val) == [status |-> "returned", value |-> val, error |-> ""]
Threw(err)    == [status |-> "threw", value |-> Undefined, error |-> err]
Pending       == [status |-> "pending", value |-> Undefined, error |-> ""]

\* runInference, had it parsed every response instead of only the unwrapped one
runInferenceResult_ParsesAll(S, obj) ==
    LET raw == IF obj.kind # "null" /\ IsObject(obj) /\ PARAMETER_NAME \in Keys(obj)
               THEN obj.f[PARAMETER_NAME] ELSE obj
        parsed == ZodParse(S, raw)
    IN  IF parsed.ok THEN Returned(parsed.value) ELSE Threw("ZodError")

\* runInference, had it validated the wrapper's payload and returned the wrapper
runInferenceResult_ReturnsWrapper(S, obj) ==
    IF obj.kind # "null" /\ IsObject(obj) /\ PARAMETER_NAME \in Keys(obj)
    THEN IF ZodParse(S, obj.f[PARAMETER_NAME]).ok THEN Returned(obj) ELSE Threw("ZodError")
    ELSE Returned(obj)

\* runInference after generateObject resolved with obj
runInferenceResult(S, obj) ==
    IF obj.kind # "null" /\ IsObject(obj) /\ PARAMETER_NAME \in Keys(obj)
    THEN LET unwrapped == obj.f[PARAMETER_NAME]
             parsed    == ZodParse(S, unwrapped)
         IN  IF parsed.ok THEN Returned(parsed.value) ELSE Threw("ZodError")
    ELSE Returned(obj)

\* runInference is called and suspends in generateObject
RunInferenceCall ==
    /\ infPc \in {"idle", "done"}
    /\ \E S \in Schemas : schema' = S
    /\ infPc' = "awaiting"
    /\ object' = Undefined
    /\ infResult' = Pending
    /\ UNCHANGED <<credVars, mainVars>>

\* generateObject resolves and the rest of runInference runs
GenerateObjectResolves ==
    /\ infPc = "awaiting"
    /\ \E obj \in Responses :
          /\ object' = obj
          /\ infResult' = runInferenceResult(schema, obj)
    /\ infPc' = "done"
    /\ UNCHANGED <<schema, credVars, mainVars>>

\* generateObject rejects (network, provider error): the rejection propagates
GenerateObjectRejects ==
    /\ infPc = "awaiting"
    /\ infResult' = Threw("BackendError")
    /\ infPc' = "done"
    /\ UNCHANGED <<schema, object, credVars, mainVars>>

NextInfer == RunInferenceCall \/ GenerateObjectResolves \/ GenerateObjectRejects

\* JavaScript values
JVal(t, b, str, n) == [t |-> t, b |-> b, s |-> str, n |-> n]
JUndefined == JVal("undefined", FALSE, <<>>, 0)
JBool(b)   == JVal("boolean", b, <<>>, 0)
JStr(str)  == JVal("string", FALSE, str, 0)
JNum(n)    == JVal("number", FALSE, <<>>, n)
JNaN       == JVal("NaN", FALSE, <<>>, 0)

\* the stand-by values of the variables a specification does not move
NoFrame   == [flow |-> "none", owner |-> JUndefined, repo |-> JUndefined,
              state |-> JUndefined, limit |-> JUndefined, prNumber |-> JUndefined,
              dryRun |-> FALSE, out |-> JUndefined, outPath |-> <<>>,
              capture |-> FALSE, fs |-> "none", perPage |-> 0, fetched |-> <<>>]
NoEnvFile == [exists |-> FALSE, throws |-> FALSE, entries |-> <<>>]
NoOutcome == [status |-> "none", token |-> <<>>, loaded |-> FALSE, warned |-> FALSE,
              ghCalled |-> FALSE, gh |-> [throws |-> FALSE, stdout |-> <<>>], preEnv |-> <<>>]
NoHist    == [calls |-> 0, ghCalls |-> 0, first |-> <<>>, ghAtFirst |-> 0]
NoTrace   == [token |-> FALSE, client |-> FALSE, paginate |-> FALSE, shim |-> FALSE,
              patched |-> FALSE, handled |-> FALSE]
NoArgs    == [positional |-> <<>>, dryRun |-> JUndefined, listPrs |-> JUndefined,
              state |-> JUndefined, limit |-> JUndefined, pr |-> JUndefined,
              owner |-> JUndefined, repo |-> JUndefined, out |-> JUndefined]

InitInfer ==
    /\ infPc = "idle"
    /\ schema = PrimSchema("string")
    /\ object = Undefined
    /\ infResult = Pending
    /\ env = <<>>
    /\ envFile = NoEnvFile
    /\ credOutcome = NoOutcome
    /\ credHist = NoHist
    /\ argv = <<>>
    /\ argi = 0
    /\ args = NoArgs
    /\ pc = "off"
    /\ stdoutWrite = "original"
    /\ stderrWrite = "original"
    /\ chunks = <<>>
    /\ writes = <<>>
    /\ emitted = <<>>
    /\ files = <<>>
    /\ releaseCalls = 0
    /\ frame = NoFrame
    /\ failure = "none"
    /\ trace = NoTrace

SpecInfer == InitInfer /\ [][NextInfer]_vars

-----------------------------------------------------------------------------
(* Claims about AISDKProvider.runInference (checked under SpecInfer)       *)

Valid(S, val) == ZodParse(S, val).ok
InfDone == infPc = "done" /\ object # Undefined
Unwrapped == object.f[PARAMETER_NAME]

\* C1 (as claimed): a response that is neither a valid instance of the schema nor
\* an object whose $PARAMETER_NAME value is a valid instance of the schema makes
\* runInference fail with a schema validation error; nothing non-conforming is
\* returned.
C1_InvalidResponseFails ==
    (InfDone /\ ~Valid(schema, object)
             /\ ~(HasKey(object, PARAMETER_NAME) /\ Valid(schema, Unwrapped)))
        => (infResult.status = "threw" /\ infResult.error = "ZodError")

\* C2 (as claimed): a response that is a direct valid instance of the schema is
\* returned exactly, also when that instance carries a $PARAMETER_NAME key.
C2_ValidReturnedExactly ==
    (InfDone /\ Valid(schema, object)) => infResult = Returned(object)

\* C2 (amended): a response that is a direct valid instance of the schema and
\* does not carry a $PARAMETER_NAME key is returned exactly, unparsed.
C2_ValidWithoutSentinelReturnedExactly ==
    (InfDone /\ Valid(schema, object) /\ ~HasKey(object, PARAMETER_NAME))
        => infResult = Returned(object)

\* C2 witness: a valid object with a key the schema does not declare has been
\* returned as it came.
C2_Witness ==
    /\ InfDone /\ Valid(schema, object) /\ ~HasKey(object, PARAMETER_NAME)
    /\ IsObject(object) /\ schema.type = "object"
    /\ Keys(object) \ DOMAIN schema.shape # {}
    /\ infResult = Returned(object)

IsWrapper(val) == IsObject(val) /\ Keys(val) = {PARAMETER_NAME}

DeclaredPart(S, X) ==
    IF S.type = "object" /\ IsObject(X)
    THEN Obj([k \in Keys(X) \cap DOMAIN S.shape |-> X.f[k]])
    ELSE X

-----------------------------------------------------------------------------
(* Text, process.env and resolveGitHubToken                                *)

Upto(S, n) == UNION {[1..k -> S] : k \in 0..n}

IsWhitespace(c) == c \in {" ", "\n", "\t"}

RECURSIVE TrimStart(_)
TrimStart(t) ==
    IF t # <<>> /\ IsWhitespace(Head(t)) THEN TrimStart(Tail(t)) ELSE t

RECURSIVE TrimEnd(_)
TrimEnd(t) ==
    IF t # <<>> /\ IsWhitespace(t[Len(t)]) THEN TrimEnd(SubSeq(t, 1, Len(t) - 1)) ELSE t

\* String.prototype.trim
Trim(t) == TrimEnd(TrimStart(t))

GITHUB_TOKEN  == "GITHUB_TOKEN"
GITHUB_ACTION == "GITHUB_ACTION"

\* process.env.NAME read as a condition: set and not the empty string
Truthy(e, name) == name \in DOMAIN e /\ e[name] # <<>>

\* process.env.NAME = value
SetEnv(e, name, value) ==
    [n \in DOMAIN e \cup {name} |-> IF n = name THEN value ELSE e[n]]

\* dotenv.config({ path }): every entry of the file is copied into process.env
\* unless process.env already has that name (dotenv's default, override: false)
DotenvPopulate(e, entries) ==
    [n \in DOMAIN e \cup DOMAIN entries |-> IF n \in DOMAIN e THEN e[n] ELSE entries[n]]

\* loadDotEnvIfExists: a load that throws is logged and ignored
loadDotEnvIfExists(e, file) ==
    IF file.exists /\ ~file.throws THEN DotenvPopulate(e, file.entries) ELSE e

LocalText == <<"l", "o", "c", "a", "l">>

\* resolveGitHubToken, had it returned the token of `gh auth token` without
\* storing it in process.env
resolveGitHubToken_NoCache(e, file, gh) ==
    LET e1 == IF Truthy(e, GITHUB_ACTION) THEN e ELSE SetEnv(e, GITHUB_ACTION, LocalText)
        e2 == loadDotEnvIfExists(e1, file)
        token == Trim(gh.stdout)
        out(st, tok, ld, ghc) ==
            [status |-> st, token |-> tok, loaded |-> ld,
             warned |-> ld /\ file.throws, ghCalled |-> ghc, gh |-> gh, preEnv |-> e]
    IN  IF Truthy(e1, GITHUB_TOKEN)
        THEN [env |-> e1, outcome |-> out("returned", e1[GITHUB_TOKEN], FALSE, FALSE)]
        ELSE IF Truthy(e2, GITHUB_TOKEN)
        THEN [env |-> e2, outcome |-> out("returned", e2[GITHUB_TOKEN], file.exists, FALSE)]
        ELSE IF ~gh.throws /\ token # <<>>
        THEN [env |-> e2, outcome |-> out("returned", token, file.exists, TRUE)]
        ELSE [env |-> e2, outcome |-> out("threw", <<>>, file.exists, TRUE)]

\* resolveGitHubToken on process.env e, the .env file and what `gh auth token`
\* does when it is run: the new process.env and how the call ended
resolveGitHubToken(e, file, gh) ==
    LET e1 == IF Truthy(e, GITHUB_ACTION) THEN e ELSE SetEnv(e, GITHUB_ACTION, LocalText)
        e2 == loadDotEnvIfExists(e1, file)
        token == Trim(gh.stdout)
        out(st, tok, ld, ghc) ==
            [status |-> st, token |-> tok, loaded |-> ld,
             warned |-> ld /\ file.throws, ghCalled |-> ghc, gh |-> gh, preEnv |-> e]
    IN  IF Truthy(e1, GITHUB_TOKEN)
        THEN [env |-> e1, outcome |-> out("returned", e1[GITHUB_TOKEN], FALSE, FALSE)]
        ELSE IF Truthy(e2, GITHUB_TOKEN)
        THEN [env |-> e2, outcome |-> out("returned", e2[GITHUB_TOKEN], file.exists, FALSE)]
        ELSE IF ~gh.throws /\ token # <<>>
        THEN [env |-> SetEnv(e2, GITHUB_TOKEN, token),
              outcome |-> out("returned", token, file.exists, TRUE)]
        ELSE [env |-> e2, outcome |-> out("threw", <<>>, file.exists, TRUE)]

MaxStdout == 3
MaxCalls  == 2

StdoutChars == {" ", "\n", "G"}

\* what running `gh auth token` can do: fail, or exit 0 with some stdout
GhOutcomes ==
    {[throws |-> TRUE, stdout |-> <<>>]} \cup
    {[throws |-> FALSE, stdout |-> t] : t \in Upto(StdoutChars, MaxStdout)}

\* the texts an environment variable or a .env entry may hold
EnvTokens  == {<<>>, <<"E">>}
FileTokens == {<<>>, <<"F">>}

InitialEnvs ==
    UNION {[ns -> EnvTokens] : ns \in SUBSET {GITHUB_TOKEN, GITHUB_ACTION}}

EnvFiles ==
    {NoEnvFile} \cup
    {[exists |-> TRUE, throws |-> th, entries |-> en] :
        th \in BOOLEAN, en \in UNION {[ns -> FileTokens] : ns \in SUBSET {GITHUB_TOKEN}}}

InitCred ==
    /\ env \in InitialEnvs
    /\ envFile \in EnvFiles
    /\ credOutcome = NoOutcome
    /\ credHist = NoHist
    /\ infPc = "idle"
    /\ schema = PrimSchema("string")
    /\ object = Undefined
    /\ infResult = Pending
    /\ argv = <<>>
    /\ argi = 0
    /\ args = NoArgs
    /\ pc = "off"
    /\ stdoutWrite = "original"
    /\ stderrWrite = "original"
    /\ chunks = <<>>
    /\ writes = <<>>
    /\ emitted = <<>>
    /\ files = <<>>
    /\ releaseCalls = 0
    /\ frame = NoFrame
    /\ failure = "none"
    /\ trace = NoTrace

\* one call of resolveGitHubToken in the running process
ResolveGitHubToken ==
    /\ credHist.calls < MaxCalls
    /\ \E gh \in GhOutcomes :
          LET r == resolveGitHubToken(env, envFile, gh)
              firstNow == credHist.first = <<>> /\ r.outcome.status = "returned"
              ghCalls == credHist.ghCalls + (IF r.outcome.ghCalled THEN 1 ELSE 0)
          IN  /\ env' = r.env
              /\ credOutcome' = r.outcome
              /\ credHist' = [calls |-> credHist.calls + 1,
                              ghCalls |-> ghCalls,
                              first |-> IF firstNow THEN r.outcome.token ELSE credHist.first,
                              ghAtFirst |-> IF firstNow THEN ghCalls ELSE credHist.ghAtFirst]
    /\ UNCHANGED <<envFile, infVars, mainVars>>

NextCred == ResolveGitHubToken

SpecCred == InitCred /\ [][NextCred]_vars

-----------------------------------------------------------------------------
(* Claims about resolveGitHubToken (checked under SpecCred)                *)

Called == credOutcome.status # "none"

\* what each of the three sources holds when the call starts
EnvSource  == IF GITHUB_TOKEN \in DOMAIN credOutcome.preEnv
              THEN credOutcome.preEnv[GITHUB_TOKEN] ELSE <<>>
FileSource == IF envFile.exists /\ ~envFile.throws /\ GITHUB_TOKEN \in DOMAIN envFile.entries
              THEN envFile.entries[GITHUB_TOKEN] ELSE <<>>
GhSource   == IF credOutcome.gh.throws THEN <<>> ELSE Trim(credOutcome.gh.stdout)

FirstSource ==
    IF EnvSource # <<>> THEN EnvSource
    ELSE IF FileSource # <<>> THEN FileSource
    ELSE GhSource

\* C4 (as claimed): the call returns the token of the first of environment, .env
\* file and trimmed `gh auth token` output that is not empty; the .env file is
\* loaded only when the environment has no token, the command is run only when
\* neither has one; the call throws exactly when all three are empty.
C4_FirstSourceWins ==
    Called =>
        /\ (credOutcome.status = "threw") <=> (FirstSource = <<>>)
        /\ credOutcome.status = "returned" => credOutcome.token = FirstSource
        /\ credOutcome.loaded => EnvSource = <<>>
        /\ credOutcome.ghCalled <=> (EnvSource = <<>> /\ FileSource = <<>>)

\* C5: once a call of resolveGitHubToken has succeeded, process.env.GITHUB_TOKEN
\* holds the returned token and every later call returns that token without
\* running `gh auth token` again.
C5_ResolutionIdempotent ==
    credHist.first # <<>> =>
        /\ credOutcome.status = "returned"
        /\ credOutcome.token = credHist.first
        /\ Truthy(env, GITHUB_TOKEN) /\ env[GITHUB_TOKEN] = credHist.first
        /\ credHist.ghCalls = credHist.ghAtFirst

\* C5 witness: the token came from `gh auth token` and the call was repeated
C5_Witness ==
    /\ credHist.calls >= 2
    /\ credHist.first = <<"G">>
    /\ credHist.ghAtFirst = 1
    /\ credOutcome.token = <<"G">>

-----------------------------------------------------------------------------
(* parseArgs                                                               *)

\* a JavaScript value read as a condition
JTruthy(x) ==
    CASE x.t = "boolean" -> x.b
      [] x.t = "string"  -> x.s # <<>>
      [] x.t = "number"  -> x.n # 0
      [] OTHER           -> FALSE

\* a || b
JOr(x, y) == IF JTruthy(x) THEN x ELSE y

\* String.prototype.startsWith with a one-character prefix
StartsWith(t, c) == t # <<>> /\ t[1] = c

Digits == <<"0", "1", "2", "3", "4", "5", "6", "7", "8", "9">>
IsDigit(c) == \E k \in 1..Len(Digits) : Digits[k] = c
DigitVal(c) == (CHOOSE k \in 1..Len(Digits) : Digits[k] = c) - 1

RECURSIVE DigitPrefix(_)
DigitPrefix(t) ==
    IF t # <<>> /\ IsDigit(Head(t)) THEN <<Head(t)>> \o DigitPrefix(Tail(t)) ELSE <<>>

RECURSIVE DecimalValue(_)
DecimalValue(ds) ==
    IF ds = <<>> THEN 0
    ELSE 10 * DecimalValue(SubSeq(ds, 1, Len(ds) - 1)) + DigitVal(ds[Len(ds)])

\* parseInt(t, 10): leading whitespace, an optional sign, then the longest run
\* of digits; NaN when there is no digit
ParseInt(t) ==
    LET u == TrimStart(t)
        signed == u # <<>> /\ u[1] \in {"-", "+"}
        ds == DigitPrefix(IF signed THEN Tail(u) ELSE u)
    IN  IF ds = <<>> THEN JNaN
        ELSE JNum(IF signed /\ u[1] = "-" THEN 0 - DecimalValue(ds) ELSE DecimalValue(ds))

FlagDryRun  == <<"-", "-", "d", "r", "y", "-", "r", "u", "n">>
FlagListPrs == <<"-", "-", "l", "i", "s", "t", "-", "p", "r", "s">>
FlagState   == <<"-", "-", "s", "t", "a", "t", "e">>
FlagLimit   == <<"-", "-", "l", "i", "m", "i", "t">>
FlagPr      == <<"-", "-", "p", "r">>
FlagOwner   == <<"-", "-", "o", "w", "n", "e", "r">>
FlagRepo    == <<"-", "-", "r", "e", "p", "o">>
FlagOut     == <<"-", "-", "o", "u", "t">>
FlagOutShort == <<"-", "o", "u", "t">>

\* argv[i] with the source's 0-based i: undefined past the end
ArgAt(av, i) == IF i + 1 \in 1..Len(av) THEN JStr(av[i + 1]) ELSE JUndefined

\* the --out branch of the loop, had it left out the i++ that skips the path
OutStep_NoSkip(av, i, ar) ==
    LET next == ArgAt(av, i + 1)
    IN  IF JTruthy(next) /\ ~StartsWith(next.s, "-")
        THEN [i |-> i + 1, args |-> [ar EXCEPT !.out = next]]
        ELSE [i |-> i + 1, args |-> [ar EXCEPT !.out = JBool(TRUE)]]

\* the --out and -out branch of parseArgs' loop
OutStep(av, i, ar) ==
    LET next == ArgAt(av, i + 1)
    IN  IF JTruthy(next) /\ ~StartsWith(next.s, "-")
        THEN [i |-> i + 2, args |-> [ar EXCEPT !.out = next]]
        ELSE [i |-> i + 1, args |-> [ar EXCEPT !.out = JBool(TRUE)]]

\* one iteration of parseArgs' loop at index i: the index the next iteration
\* starts at and the arguments so far
ParseStep(av, i, ar) ==
    LET a    == av[i + 1]
        next == ArgAt(av, i + 1)
    IN  CASE a = FlagDryRun  -> [i |-> i + 1, args |-> [ar EXCEPT !.dryRun = JBool(TRUE)]]
          [] a = FlagListPrs -> [i |-> i + 1, args |-> [ar EXCEPT !.listPrs = JBool(TRUE)]]
          [] a = FlagState   -> [i |-> i + 2, args |-> [ar EXCEPT !.state = next]]
          [] a = FlagLimit   ->
                [i |-> i + 2,
                 args |-> [ar EXCEPT !.limit = ParseInt(JOr(next, JStr(<<"1", "0">>)).s)]]
          [] a = FlagPr      ->
                [i |-> i + 2,
                 args |-> [ar EXCEPT !.pr = ParseInt(JOr(next, JStr(<<"0">>)).s)]]
          [] a = FlagOwner   -> [i |-> i + 2, args |-> [ar EXCEPT !.owner = next]]
          [] a = FlagRepo    -> [i |-> i + 2, args |-> [ar EXCEPT !.repo = next]]
          [] a \in {FlagOut, FlagOutShort} -> OutStep(av, i, ar)
          [] OTHER -> [i |-> i + 1,
                       args |-> [ar EXCEPT !.positional = Append(ar.positional, a)]]

MaxArgs == 3

\* the tokens a command line is drawn from: every flag, numbers, a path, the
\* empty string and a token that looks like a flag without being one
ArgTokens ==
    {FlagDryRun, FlagListPrs, FlagState, FlagLimit, FlagPr, FlagOwner, FlagRepo,
     FlagOut, FlagOutShort,
     <<"7">>, <<"0">>, <<"p">>, <<>>, <<"-", "x">>}

InitArgs ==
    /\ argv \in Upto(ArgTokens, MaxArgs)
    /\ argi = 0
    /\ args = NoArgs
    /\ pc = "parse"
    /\ infPc = "idle"
    /\ schema = PrimSchema("string")
    /\ object = Undefined
    /\ infResult = Pending
    /\ env = <<>>
    /\ envFile = NoEnvFile
    /\ credOutcome = NoOutcome
    /\ credHist = NoHist
    /\ stdoutWrite = "original"
    /\ stderrWrite = "original"
    /\ chunks = <<>>
    /\ writes = <<>>
    /\ emitted = <<>>
    /\ files = <<>>
    /\ releaseCalls = 0
    /\ frame = NoFrame
    /\ failure = "none"
    /\ trace = NoTrace

\* one iteration of the loop of parseArgs
ParseArgsStep ==
    /\ pc = "parse"
    /\ argi < Len(argv)
    /\ LET r == ParseStep(argv, argi, args)
       IN  /\ argi' = r.i
           /\ args' = r.args
    /\ UNCHANGED <<argv, pc, ioVars, flowVars, infVars, credVars>>

\* the loop of parseArgs ends and parseArgs returns args
ParseArgsReturn ==
    /\ pc = "parse"
    /\ argi >= Len(argv)
    /\ pc' = "parsed"
    /\ UNCHANGED <<argVars, ioVars, flowVars, infVars, credVars>>

NextArgs == ParseArgsStep \/ ParseArgsReturn

SpecArgs == InitArgs /\ [][NextArgs]_vars

-----------------------------------------------------------------------------
(* Claims about parseArgs (checked under SpecArgs)                         *)

\* the loop is about to handle an --out or -out token
AtOut == pc = "parse" /\ argi < Len(argv) /\ argv[argi + 1] \in {FlagOut, FlagOutShort}
FollowingExists == argi + 2 <= Len(argv)
Following == argv[argi + 2]

\* C9 (as claimed): when the token after --out exists and does not start with
\* "-", it becomes args.out and is skipped; otherwise args.out is true and the
\* following token is parsed next.
C9_OutConsumesNonFlag ==
    [][AtOut =>
         IF FollowingExists /\ ~StartsWith(Following, "-")
         THEN args'.out = JStr(Following) /\ argi' = argi + 2
         ELSE args'.out = JBool(TRUE) /\ argi' = argi + 1]_vars

\* C9 (amended): when the token after --out exists, is not the empty string and
\* does not start with "-", it becomes args.out and is skipped (it is neither a
\* flag nor a positional); otherwise args.out is true and the following token,
\* the empty string included, is parsed next. Nothing else of args changes.
C9_OutConsumesNonEmptyNonFlag ==
    [][AtOut =>
         /\ IF FollowingExists /\ Following # <<>> /\ ~StartsWith(Following, "-")
            THEN args'.out = JStr(Following) /\ argi' = argi + 2
            ELSE args'.out = JBool(TRUE) /\ argi' = argi + 1
         /\ [args' EXCEPT !.out = args.out] = args]_vars

\* C9 witness: --out took the following token as its path and parsing went on
\* behind it
C9_Witness ==
    /\ argv = <<FlagOut, <<"p">>, FlagDryRun>>
    /\ argi = 2
    /\ args.out = JStr(<<"p">>)
    /\ args.positional = <<>>

-----------------------------------------------------------------------------
(* main, listPRs and reviewPR                                              *)

RECURSIVE NatToText(_)
NatToText(n) ==
    IF n < 10 THEN <<Digits[n + 1]>> ELSE NatToText(n \div 10) \o <<Digits[(n % 10) + 1]>>

\* String(n) of an integer
NumToText(n) == IF n < 0 THEN <<"-">> \o NatToText(0 - n) ELSE NatToText(n)

\* a value inside a template literal
TextOf(x) ==
    CASE x.t = "string"  -> x.s
      [] x.t = "number"  -> NumToText(x.n)
      [] x.t = "boolean" -> IF x.b THEN <<"t", "r", "u", "e">> ELSE <<"f", "a", "l", "s", "e">>
      [] x.t = "NaN"     -> <<"N", "a", "N">>
      [] OTHER           -> <<"u", "n", "d", "e", "f", "i", "n", "e", "d">>

\* t.replace(/[^0-9]/g, '')
RECURSIVE KeepDigits(_)
KeepDigits(t) ==
    IF t = <<>> THEN <<>>
    ELSE (IF IsDigit(Head(t)) THEN <<Head(t)>> ELSE <<>>) \o KeepDigits(Tail(t))

\* t.split('/')
RECURSIVE SplitSlash(_)
SplitSlash(t) ==
    IF \A k \in 1..Len(t) : t[k] # "/" THEN <<t>>
    ELSE LET k == CHOOSE j \in 1..Len(t) : t[j] = "/" /\ \A h \in 1..(j - 1) : t[h] # "/"
         IN  <<SubSeq(t, 1, k - 1)>> \o SplitSlash(SubSeq(t, k + 1, Len(t)))

\* parts.join('')
RECURSIVE Join(_)
Join(parts) == IF parts = <<>> THEN <<>> ELSE Head(parts) \o Join(Tail(parts))

DefaultRepository ==
    <<"s", "h", "a", "w", "n", "d", "/", "p", "r", "-", "r", "e", "v", "i", "e", "w", "e", "r">>
OpenText     == <<"o", "p", "e", "n">>
DefaultLimit == 10
PerPage      == 100

\* process.cwd(), and the path functions on paths below or beside it
Cwd == <<"/", "w">>
IsAbsolute(path) == StartsWith(path, "/")
PathJoin(dir, rest) == dir \o <<"/">> \o rest
Dirname(path) ==
    LET slashes == {k \in 1..Len(path) : path[k] = "/"}
        last == CHOOSE k \in slashes : \A j \in slashes : j <= k
    IN  IF slashes = {} THEN <<".">> ELSE IF last = 1 THEN <<"/">> ELSE SubSeq(path, 1, last - 1)
Relative(from, path) ==
    IF Len(path) > Len(from) /\ SubSeq(path, 1, Len(from) + 1) = from \o <<"/">>
    THEN SubSeq(path, Len(from) + 2, Len(path))
    ELSE <<".", ".">> \o path

DryDir == <<"d", "r", "y">>
DefaultOutName(prNumber) ==
    <<"p", "r", "-">> \o KeepDigits(TextOf(prNumber)) \o <<".", "t", "x", "t">>

\* what a write call may be handed: text, or a Buffer of bytes
StringFrag(t) == [type |-> "string", data |-> t]
BufferFrag(bytes) == [type |-> "buffer", data |-> bytes]
ByteChar(byte) == IF byte = "0x62" THEN "b" ELSE IF byte = "0x0a" THEN "\n" ELSE "?"

\* typeof str === 'string' ? str : String(str)
TextForm(arg) ==
    IF arg.type = "string" THEN arg.data
    ELSE [k \in 1..Len(arg.data) |-> ByteChar(arg.data[k])]

IoState == [out |-> stdoutWrite, err |-> stderrWrite, chunks |-> chunks,
            writes |-> writes, emitted |-> emitted]

\* the patched writers, had the one of stderr passed on without buffering
WriteCall_StderrNotBuffered(io, stream, arg, by) ==
    LET writer == IF stream = "stdout" THEN io.out ELSE io.err
    IN  [io EXCEPT !.chunks  = IF writer = "capture" /\ stream = "stdout"
                               THEN Append(@, TextForm(arg)) ELSE @,
                   !.emitted = Append(@, [stream |-> stream, arg |-> arg]),
                   !.writes  = Append(@, [stream |-> stream, arg |-> arg, by |-> by])]

\* process.stdout.write(arg) or process.stderr.write(arg), as the streams are
\* patched at that moment: the capturing writer buffers the text form and
\* passes its argument on to the original writer
\* (by: whose call it is, the review collaborator's or this program's own)
WriteCall(io, stream, arg, by) ==
    LET writer == IF stream = "stdout" THEN io.out ELSE io.err
    IN  [io EXCEPT !.chunks  = IF writer = "capture" THEN Append(@, TextForm(arg)) ELSE @,
                   !.emitted = Append(@, [stream |-> stream, arg |-> arg]),
                   !.writes  = Append(@, [stream |-> stream, arg |-> arg, by |-> by])]

\* console.log(text) and console.error(text)
ConsoleLog(io, t)   == WriteCall(io, "stdout", StringFrag(t \o <<"\n">>), "cli")
ConsoleError(io, t) == WriteCall(io, "stderr", StringFrag(t \o <<"\n">>), "cli")

SetFile(fs, path, content) ==
    [q \in DOMAIN fs \cup {path} |-> IF q = path THEN content ELSE fs[q]]

\* what the file system holds at the path of a directory
Directory == <<"<dir>">>

SavedText == <<"\n", "[", "d", "r", "y", "-", "r", "u", "n", "]", " ", "S", "a", "v", "e", "d", " ">>

\* reviewPR's restore function: the writers first, then the directory, the file
\* and the confirmation line; fsOutcome says what the file system does
Restore(io, fs, outPath, fsOutcome) ==
    LET io1 == [io EXCEPT !.out = "original", !.err = "original"]
        fs1 == SetFile(fs, Dirname(outPath), Directory)
    IN  CASE fsOutcome = "mkdirFails" -> [io |-> io1, files |-> fs, error |-> "MkdirError"]
          [] fsOutcome = "writeFails" -> [io |-> io1, files |-> fs1, error |-> "WriteFileError"]
          [] OTHER ->
                [io |-> ConsoleLog(io1, SavedText \o Relative(Cwd, outPath)),
                 files |-> SetFile(fs1, outPath, Join(io.chunks)),
                 error |-> "none"]

\* main's owner and repo: the flag, or the half of GITHUB_REPOSITORY
RepositoryParts(e) ==
    SplitSlash(IF Truthy(e, "GITHUB_REPOSITORY") THEN e["GITHUB_REPOSITORY"]
               ELSE DefaultRepository)
PartAt(parts, k) == IF k <= Len(parts) THEN JStr(parts[k]) ELSE JUndefined
OwnerOf(ar, e) == JOr(ar.owner, PartAt(RepositoryParts(e), 1))
RepoOf(ar, e)  == JOr(ar.repo, PartAt(RepositoryParts(e), 2))

\* listPRs up to its await: the token, the client, the paginate call
listPRsStart(e, file, gh, ar) ==
    LET r == resolveGitHubToken(e, file, gh)
        ok == r.outcome.status = "returned"
    IN  [env |-> r.env,
         outcome |-> r.outcome,
         failure |-> IF ok THEN "none" ELSE "NoCredentialError",
         trace |-> [NoTrace EXCEPT !.token = ok, !.client = ok, !.paginate = ok],
         frame |-> IF ok
                   THEN [NoFrame EXCEPT !.flow = "list",
                                        !.owner = OwnerOf(ar, e), !.repo = RepoOf(ar, e),
                                        !.state = JOr(ar.state, JStr(OpenText)),
                                        !.limit = JOr(ar.limit, JNum(DefaultLimit)),
                                        !.perPage = PerPage]
                   ELSE NoFrame]

\* all.slice(0, limit)
Slice0(all, limit) ==
    LET end == IF limit < 0 THEN (IF Len(all) + limit < 0 THEN 0 ELSE Len(all) + limit)
               ELSE IF limit > Len(all) THEN Len(all) ELSE limit
    IN  SubSeq(all, 1, end)

\* `#${p.number} ${p.title} by @${p.user?.login}`
PrLine(p) ==
    <<"#">> \o NumToText(p.number) \o <<" ">> \o p.title \o <<" ", "b", "y", " ", "@">>
        \o TextOf(p.login)

RECURSIVE LogEach(_, _)
LogEach(io, items) ==
    IF items = <<>> THEN io ELSE LogEach(ConsoleLog(io, PrLine(Head(items))), Tail(items))

\* listPRs after paginate resolved with all
listPRsFinish(io, fr, all) == LogEach(io, Slice0(all, fr.limit.n))

\* reviewPR, had it resolved the token after setting up the environment and
\* the capture instead of before
reviewPRStart_ResolvesLast(e, file, gh, ar, io) ==
    LET r == resolveGitHubToken(e, file, gh)
        ok == r.outcome.status = "returned"
        owner == OwnerOf(ar, e)
        repo == RepoOf(ar, e)
        dryRun == JTruthy(ar.dryRun)
        e1 == SetEnv(r.env, "DEBUG", <<"1">>)
        e2 == SetEnv(e1, "GITHUB_REPOSITORY", TextOf(owner) \o <<"/">> \o TextOf(repo))
        e3 == SetEnv(e2, "GITHUB_PULL_REQUEST", TextOf(ar.pr))
        e4 == SetEnv(e3, "GITHUB_EVENT_NAME",
                     <<"p", "u", "l", "l", "_", "r", "e", "q", "u", "e", "s", "t">>)
        e5 == SetEnv(e4, "GITHUB_EVENT_ACTION",
                     <<"s", "y", "n", "c", "h", "r", "o", "n", "i", "z", "e">>)
        e6 == IF dryRun THEN SetEnv(e5, "DRY_RUN", <<"1">>) ELSE e5
        capture == JTruthy(ar.out)
        outPath == IF ar.out.t = "string" /\ Trim(ar.out.s) # <<>>
                   THEN (IF IsAbsolute(ar.out.s) THEN ar.out.s ELSE PathJoin(Cwd, ar.out.s))
                   ELSE PathJoin(PathJoin(Cwd, DryDir), DefaultOutName(ar.pr))
        set == [env |-> e6, outcome |-> r.outcome, failure |-> "none",
                trace |-> [NoTrace EXCEPT !.token = ok, !.shim = TRUE, !.patched = capture],
                frame |-> [NoFrame EXCEPT !.flow = "review", !.owner = owner, !.repo = repo,
                                          !.prNumber = ar.pr, !.dryRun = dryRun,
                                          !.out = ar.out,
                                          !.outPath = IF capture THEN outPath ELSE <<>>,
                                          !.capture = capture],
                io |-> IF capture
                       THEN [io EXCEPT !.out = "capture", !.err = "capture", !.chunks = <<>>]
                       ELSE io]
    IN  IF ok THEN set ELSE [set EXCEPT !.failure = "NoCredentialError"]

\* reviewPR up to its first await: the token, the environment of the simulated
\* event, the capture of the two streams
reviewPRStart(e, file, gh, ar, io) ==
    LET r == resolveGitHubToken(e, file, gh)
        ok == r.outcome.status = "returned"
        owner == OwnerOf(ar, e)
        repo == RepoOf(ar, e)
        dryRun == JTruthy(ar.dryRun)
        e1 == SetEnv(r.env, "DEBUG", <<"1">>)
        e2 == SetEnv(e1, "GITHUB_REPOSITORY", TextOf(owner) \o <<"/">> \o TextOf(repo))
        e3 == SetEnv(e2, "GITHUB_PULL_REQUEST", TextOf(ar.pr))
        e4 == SetEnv(e3, "GITHUB_EVENT_NAME",
                     <<"p", "u", "l", "l", "_", "r", "e", "q", "u", "e", "s", "t">>)
        e5 == SetEnv(e4, "GITHUB_EVENT_ACTION",
                     <<"s", "y", "n", "c", "h", "r", "o", "n", "i", "z", "e">>)
        e6 == IF dryRun THEN SetEnv(e5, "DRY_RUN", <<"1">>) ELSE e5
        capture == JTruthy(ar.out)
        outPath == IF ar.out.t = "string" /\ Trim(ar.out.s) # <<>>
                   THEN (IF IsAbsolute(ar.out.s) THEN ar.out.s ELSE PathJoin(Cwd, ar.out.s))
                   ELSE PathJoin(PathJoin(Cwd, DryDir), DefaultOutName(ar.pr))
    IN  IF ~ok
        THEN [env |-> r.env, outcome |-> r.outcome, failure |-> "NoCredentialError",
              trace |-> NoTrace, frame |-> NoFrame, io |-> io]
        ELSE [env |-> e6, outcome |-> r.outcome, failure |-> "none",
              trace |-> [NoTrace EXCEPT !.token = TRUE, !.shim = TRUE, !.patched = capture],
              frame |-> [NoFrame EXCEPT !.flow = "review", !.owner = owner, !.repo = repo,
                                        !.prNumber = ar.pr, !.dryRun = dryRun,
                                        !.out = ar.out,
                                        !.outPath = IF capture THEN outPath ELSE <<>>,
                                        !.capture = capture],
              io |-> IF capture
                     THEN [io EXCEPT !.out = "capture", !.err = "capture", !.chunks = <<>>]
                     ELSE io]

\* the text console.error prints for an error: its name stands for its message
ErrorText(err) == <<err>>

\* main rejects with err: main().catch logs the error and exits with status 1
MainRejects(io, err) ==
    /\ pc' = "failed"
    /\ failure' = err
    /\ LET io1 == ConsoleError(io, ErrorText(err))
       IN  /\ stdoutWrite' = io1.out
           /\ stderrWrite' = io1.err
           /\ chunks' = io1.chunks
           /\ writes' = io1.writes
           /\ emitted' = io1.emitted

MainResolves(io) ==
    /\ pc' = "done"
    /\ failure' = "none"
    /\ stdoutWrite' = io.out
    /\ stderrWrite' = io.err
    /\ chunks' = io.chunks
    /\ writes' = io.writes
    /\ emitted' = io.emitted

\* reviewPR, had it called restore after the try block instead of in a finally
ReviewPRFinally_NoFinally(err, fsOutcome) ==
    IF frame.capture /\ err = "none"
    THEN LET r == Restore(IoState, files, frame.outPath, fsOutcome)
         IN  /\ releaseCalls' = releaseCalls + 1
             /\ files' = r.files
             /\ frame' = [frame EXCEPT !.fs = fsOutcome]
             /\ IF r.error = "none" THEN MainResolves(r.io) ELSE MainRejects(r.io, r.error)
    ELSE /\ UNCHANGED <<releaseCalls, files, frame>>
         /\ IF err = "none" THEN MainResolves(IoState) ELSE MainRejects(IoState, err)

\* the finally block of reviewPR, entered with the error of the try block
\* ("none" when handlePullRequest resolved), and what main does with the result
ReviewPRFinally(err, fsOutcome) ==
    IF frame.capture
    THEN LET r == Restore(IoState, files, frame.outPath, fsOutcome)
             final == IF r.error # "none" THEN r.error ELSE err
         IN  /\ releaseCalls' = releaseCalls + 1
             /\ files' = r.files
             /\ frame' = [frame EXCEPT !.fs = fsOutcome]
             /\ IF final = "none" THEN MainResolves(r.io) ELSE MainRejects(r.io, final)
    ELSE /\ UNCHANGED <<releaseCalls, files, frame>>
         /\ IF err = "none" THEN MainResolves(IoState) ELSE MainRejects(IoState, err)

\* what mkdirSync and writeFileSync can do when restore runs
FsOutcomes == IF frame.capture THEN {"ok", "mkdirFails", "writeFails"} ELSE {"ok"}

UsageText == <<"U", "s", "a", "g", "e">>

MaxWrites == 3
MaxPRs    == 12

\* the command lines main is run with: nothing, the listing with and without a
\* limit, the review with and without --dry-run and --out, and both at once
LimitParts ==
    {<<>>, <<FlagLimit>>} \cup
    {<<FlagLimit, n>> : n \in {<<"2">>, <<"0">>, <<"-", "1">>, <<"x">>, <<"1", "2">>}}
OutParts ==
    {<<>>, <<FlagOut>>, <<FlagOut, <<"p">>>>, <<FlagOutShort, <<"/", "q">>>>,
     <<FlagOut, <<>>>>}
MainArgvs ==
    {<<>>, <<FlagListPrs, FlagPr, <<"7">>>>} \cup
    {<<FlagListPrs>> \o l : l \in LimitParts} \cup
    {<<FlagPr, n>> \o o \o d : n \in {<<"7">>, <<"0">>}, o \in OutParts,
                               d \in {<<>>, <<FlagDryRun>>}}

MainEnvs     == {e \in InitialEnvs : DOMAIN e \subseteq {GITHUB_TOKEN} /\ <<>> \notin {e[n] : n \in DOMAIN e}}
MainEnvFiles == {f \in EnvFiles : ~f.throws /\ <<>> \notin {f.entries[n] : n \in DOMAIN f.entries}}
MainGhOutcomes ==
    {gh \in GhOutcomes : gh.throws \/ gh.stdout \in {<<>>, <<"G", "\n">>}}

\* the pull requests the platform may answer with, newest first
PullRequest(j) ==
    [number |-> 40 - j, title |-> <<"t">>,
     login |-> IF j % 3 = 0 THEN JUndefined ELSE JStr(<<"u">>)]
PRLists == {[j \in 1..k |-> PullRequest(j + off)] : k \in 0..MaxPRs, off \in 0..1}

\* what the review collaborator may write
Fragments == {StringFrag(<<"a">>), BufferFrag(<<"0x62", "0x0a">>)}

InitMain ==
    /\ argv \in MainArgvs
    /\ argi = 0
    /\ args = NoArgs
    /\ pc = "parse"
    /\ env \in MainEnvs
    /\ envFile \in MainEnvFiles
    /\ credOutcome = NoOutcome
    /\ credHist = NoHist
    /\ infPc = "idle"
    /\ schema = PrimSchema("string")
    /\ object = Undefined
    /\ infResult = Pending
    /\ stdoutWrite = "original"
    /\ stderrWrite = "original"
    /\ chunks = <<>>
    /\ writes = <<>>
    /\ emitted = <<>>
    /\ files = <<>>
    /\ releaseCalls = 0
    /\ frame = NoFrame
    /\ failure = "none"
    /\ trace = NoTrace

\* main with neither --list-prs nor a --pr number: the usage text
MainUsage ==
    /\ pc = "parsed"
    /\ ~JTruthy(args.listPrs)
    /\ ~JTruthy(args.pr)
    /\ MainResolves(ConsoleLog(IoState, UsageText))
    /\ UNCHANGED <<argVars, files, releaseCalls, frame, trace, infVars, credVars>>

\* main with --list-prs: listPRs runs up to its await of paginate
MainListPRs ==
    /\ pc = "parsed"
    /\ JTruthy(args.listPrs)
    /\ \E gh \in MainGhOutcomes :
          LET r == listPRsStart(env, envFile, gh, args)
          IN  /\ env' = r.env
              /\ credOutcome' = r.outcome
              /\ trace' = r.trace
              /\ frame' = r.frame
              /\ IF r.failure = "none"
                 THEN pc' = "list_paginate" /\ UNCHANGED <<failure, ioVars>>
                 ELSE MainRejects(IoState, r.failure)
    /\ UNCHANGED <<argVars, files, releaseCalls, envFile, credHist, infVars>>

\* paginate resolves with every page: listPRs prints and returns
PaginateResolves ==
    /\ pc = "list_paginate"
    /\ \E all \in PRLists :
          /\ frame' = [frame EXCEPT !.fetched = all]
          /\ MainResolves(listPRsFinish(IoState, frame, all))
    /\ UNCHANGED <<argVars, files, releaseCalls, trace, infVars, credVars>>

\* paginate rejects: listPRs rejects
PaginateRejects ==
    /\ pc = "list_paginate"
    /\ MainRejects(IoState, "RequestError")
    /\ UNCHANGED <<argVars, files, releaseCalls, frame, trace, infVars, credVars>>

\* main with a --pr number and no --list-prs: reviewPR runs up to its await of
\* the import of ./pull_request
MainReviewPR ==
    /\ pc = "parsed"
    /\ ~JTruthy(args.listPrs)
    /\ JTruthy(args.pr)
    /\ \E gh \in MainGhOutcomes :
          LET r == reviewPRStart(env, envFile, gh, args, IoState)
          IN  /\ env' = r.env
              /\ credOutcome' = r.outcome
              /\ trace' = r.trace
              /\ frame' = r.frame
              /\ IF r.failure = "none"
                 THEN /\ pc' = "review_import"
                      /\ stdoutWrite' = r.io.out
                      /\ stderrWrite' = r.io.err
                      /\ chunks' = r.io.chunks
                      /\ UNCHANGED <<failure, writes, emitted>>
                 ELSE MainRejects(r.io, r.failure)
    /\ UNCHANGED <<argVars, files, releaseCalls, envFile, credHist, infVars>>

\* the import resolves and handlePullRequest is called
ImportResolves ==
    /\ pc = "review_import"
    /\ pc' = "review_handle"
    /\ trace' = [trace EXCEPT !.handled = TRUE]
    /\ UNCHANGED <<argVars, ioVars, files, releaseCalls, frame, failure, infVars, credVars>>

\* the import rejects: handlePullRequest is never called
ImportRejects ==
    /\ pc = "review_import"
    /\ \E fsOutcome \in FsOutcomes : ReviewPRFinally("ImportError", fsOutcome)
    /\ UNCHANGED <<argVars, trace, infVars, credVars>>

\* the review collaborator writes to one of the two streams
CollaboratorWrites ==
    /\ pc \in {"review_import", "review_handle"}
    /\ Len(writes) < MaxWrites
    /\ \E stream \in {"stdout", "stderr"}, arg \in Fragments :
          LET io == WriteCall(IoState, stream, arg, "collaborator")
          IN  /\ chunks' = io.chunks
              /\ writes' = io.writes
              /\ emitted' = io.emitted
    /\ UNCHANGED <<argVars, pc, stdoutWrite, stderrWrite, flowVars, infVars, credVars>>

\* handlePullRequest resolves
HandleResolves ==
    /\ pc = "review_handle"
    /\ \E fsOutcome \in FsOutcomes : ReviewPRFinally("none", fsOutcome)
    /\ UNCHANGED <<argVars, trace, infVars, credVars>>

\* handlePullRequest rejects
HandleRejects ==
    /\ pc = "review_handle"
    /\ \E fsOutcome \in FsOutcomes : ReviewPRFinally("HandlerError", fsOutcome)
    /\ UNCHANGED <<argVars, trace, infVars, credVars>>

NextMain ==
    \/ ParseArgsStep
    \/ ParseArgsReturn
    \/ MainUsage
    \/ MainListPRs
    \/ PaginateResolves
    \/ PaginateRejects
    \/ MainReviewPR
    \/ ImportResolves
    \/ ImportRejects
    \/ CollaboratorWrites
    \/ HandleResolves
    \/ HandleRejects

SpecMain == InitMain /\ [][NextMain]_vars

-----------------------------------------------------------------------------
(* Claims about main, listPRs and reviewPR (checked under SpecMain)        *)

Ended == pc \in {"done", "failed"}
ShimNames == {"DEBUG", "GITHUB_REPOSITORY", "GITHUB_PULL_REQUEST", "GITHUB_EVENT_NAME",
              "GITHUB_EVENT_ACTION", "DRY_RUN"}

\* C6: in both flows the client, the paginate call, the simulated-event
\* environment, the patched writers and the call of handlePullRequest exist only
\* after resolveGitHubToken returned a token, which process.env then holds; when
\* it threw, main failed with that error and none of them ever happened.
C6_CredentialBeforeApi ==
    /\ (\/ trace.client \/ trace.paginate \/ trace.shim \/ trace.patched \/ trace.handled
        \/ DOMAIN env \cap ShimNames # {}
        \/ stdoutWrite = "capture" \/ stderrWrite = "capture"
        \/ pc \in {"list_paginate", "review_import", "review_handle"})
           => /\ trace.token
              /\ credOutcome.status = "returned"
              /\ Truthy(env, GITHUB_TOKEN)
              /\ env[GITHUB_TOKEN] = credOutcome.token
    /\ credOutcome.status = "threw"
           => /\ pc = "failed"
              /\ failure = "NoCredentialError"
              /\ trace = NoTrace
              /\ DOMAIN env \cap ShimNames = {}
              /\ stdoutWrite = "original" /\ stderrWrite = "original"

\* C6 witness: handlePullRequest runs on a token that came from `gh auth token`
C6_Witness ==
    /\ pc = "review_handle"
    /\ trace.handled /\ trace.shim /\ trace.patched
    /\ credOutcome.ghCalled
    /\ env[GITHUB_TOKEN] = <<"G">>

\* C7: with capture enabled, the restore function has run exactly once when
\* reviewPR is over and not before, on every way out; the two writers are then
\* the original ones, also when mkdirSync or writeFileSync failed, and that
\* failure is what main rejects with.
C7_ReleaseOnceOnEveryExit ==
    /\ trace.patched
           => /\ releaseCalls = (IF Ended THEN 1 ELSE 0)
              /\ Ended => (stdoutWrite = "original" /\ stderrWrite = "original")
              /\ ~Ended => (stdoutWrite = "capture" /\ stderrWrite = "capture")
              /\ frame.fs = "mkdirFails" => (pc = "failed" /\ failure = "MkdirError")
              /\ frame.fs = "writeFails" => (pc = "failed" /\ failure = "WriteFileError")
    /\ ~trace.patched => releaseCalls = 0

\* C7 witness: handlePullRequest was running, the transcript could not be
\* written, and the writers are restored all the same
C7_Witness ==
    /\ pc = "failed"
    /\ trace.patched /\ trace.handled
    /\ frame.fs = "writeFails"
    /\ releaseCalls = 1
    /\ chunks # <<>>
    /\ stdoutWrite = "original" /\ stderrWrite = "original"

CollaboratorWritesSoFar == SelectSeq(writes, LAMBDA w : w.by = "collaborator")
TextsOf(ws) == [k \in 1..Len(ws) |-> TextForm(ws[k].arg)]

\* C8: every write reaches the original writer of its stream with its argument
\* unchanged, in the order of the calls; while capture is active the buffer
\* holds the text form of every write of the collaborator in that order; and
\* the file restore writes is their concatenation, also after
\* handlePullRequest or the import rejected.
C8_TranscriptRoundTrip ==
    /\ emitted = [k \in 1..Len(writes) |-> [stream |-> writes[k].stream, arg |-> writes[k].arg]]
    /\ trace.patched => chunks = TextsOf(CollaboratorWritesSoFar)
    /\ (trace.patched /\ frame.fs = "ok")
           => /\ frame.outPath \in DOMAIN files
              /\ files[frame.outPath] = Join(TextsOf(CollaboratorWritesSoFar))

\* C8 witness: handlePullRequest rejected after writes to both streams, a
\* Buffer among them, and the file holds all of them
C8_Witness ==
    /\ pc = "failed" /\ failure = "HandlerError"
    /\ frame.fs = "ok"
    /\ Len(CollaboratorWritesSoFar) = 3
    /\ {w.stream : w \in {CollaboratorWritesSoFar[k] : k \in 1..3}} = {"stdout", "stderr"}
    /\ \E k \in 1..3 : CollaboratorWritesSoFar[k].arg.type = "buffer"
    /\ files[frame.outPath] = Join(TextsOf(CollaboratorWritesSoFar))
    /\ Len(files[frame.outPath]) >= 4

Min(x, y) == IF x < y THEN x ELSE y
LinesOf(prs) ==
    [k \in 1..Len(prs) |-> [stream |-> "stdout", arg |-> StringFrag(PrLine(prs[k]) \o <<"\n">>)]]

\* the limit the command line gives: the number after --limit, 10 without one
GivenLimit == IF args.limit.t = "number" THEN args.limit.n ELSE DefaultLimit

\* C10 (as claimed): with --limit n (10 when the flag is omitted) and N pull
\* requests fetched, listPRs prints the first min(n, N) of them, one line each,
\* in their order.
C10_ListingCappedAtLimit ==
    (pc = "done" /\ frame.flow = "list" /\ args.limit.t \in {"number", "undefined"}
                 /\ GivenLimit >= 0)
        => emitted = LinesOf(SubSeq(frame.fetched, 1, Min(GivenLimit, Len(frame.fetched))))

====
